---- MODULE Spec2Model ----
(***************************************************************************)
(* State-machine model of four components of sktime:                       *)
(*   - ExponentTransformer / SqrtTransformer                               *)
(*       (sktime/transformations/series/exponent.py)                       *)
(*   - PyTorchDataset, the windowed training-example generator             *)
(*       (sktime/forecasting/hf_transformers_forecaster.py)                *)
(*   - HFTransformersForecaster._fit / _predict (same file)                *)
(*   - check_equal_time_index, as called by its test                       *)
(*       (sktime/utils/validation/tests/test_series.py)                    *)
(* Each component has its own specification over the shared variables; a   *)
(* specification leaves the other components' variables untouched.         *)
(***************************************************************************)
EXTENDS Integers, Sequences, FiniteSets, TLC

VARIABLES
    est,        \* the ExponentTransformer object: power, offset, _offset_value
    sqrt_est,   \* a SqrtTransformer object driven in lockstep with est
    X,          \* the series last passed to fit / transform
    Xt,         \* return value of the last transform
    Z,          \* the argument of the last inverse_transform
    Xinv,       \* return value of the last inverse_transform
    sqrt_Xt,    \* return value of the last transform of sqrt_est
    sqrt_Xinv,  \* return value of the last inverse_transform of sqrt_est
    fit_on_X,   \* TRUE while est was last fitted on the series held in X
    call,       \* name of the most recent call
    raised,     \* exception raised by the most recent call, or "none"
    sqrt_raised,\* exception raised by the most recent call on sqrt_est
    dataset,    \* the PyTorchDataset object: y, X, seq_len, fh
    ds_call,    \* name of the most recent call on the dataset
    ds_i,       \* the index passed to the last __getitem__
    ds_len,     \* return value of the last __len__
    item,       \* return value of the last __getitem__
    fc,         \* the HFTransformersForecaster object: its constructor parameters
    model,      \* self.model: parameters, config.prediction_length, eval mode
    info,       \* info["mismatched_keys"] of the last from_pretrained
    trainer,    \* the arguments of Trainer at the last trainer.train()
    fitted,     \* what a completed fit leaves: _y, _X, cutoff
    gen,        \* the arguments of the last model.generate
    fh_in,      \* the forecasting horizon passed to the last predict
    X_in,       \* the exogenous rows passed to the last predict
    y_pred,     \* return value of the last predict
    rng_seeded, \* torch / numpy seeds were set to 42
    f_call,     \* name of the most recent call on the forecaster
    f_raised,   \* exception raised by the most recent call, or "none"
    first_array,  \* the first argument of the last check_equal_time_index
    second_array, \* its second argument
    ti_call,    \* name of the most recent call of the validator
    ti_raised   \* exception raised by the most recent call, or "none"

tvars == <<est, sqrt_est, X, Xt, Z, Xinv, sqrt_Xt, sqrt_Xinv, fit_on_X, call, raised,
          sqrt_raised>>

dvars == <<dataset, ds_call, ds_i, ds_len, item>>

fvars == <<fc, model, info, trainer, fitted, gen, fh_in, X_in, y_pred, rng_seeded,
          f_call, f_raised>>

ivars == <<first_array, second_array, ti_call, ti_raised>>

vars == <<tvars, dvars, fvars, ivars>>

(***************************************************************************)
(* Bounds of the model.                                                    *)
(***************************************************************************)
\* observations of an input series are the integers -MaxAbs .. MaxAbs
MaxAbs == 2

(***************************************************************************)
(* Numbers.  Series elements are real numbers of the form                  *)
(*     rad^(1/deg) + add      (rad >= 0, deg >= 1, add an integer)         *)
(* or NaN.  An integer n is rad = 0, deg = 1, add = n; otherwise deg > 1   *)
(* and deg is the least degree for which the surd's deg-th power is an     *)
(* integer, so equal reals have equal representations.  The arithmetic is  *)
(* exact: it stands for numpy's float64 results up to rounding.            *)
(***************************************************************************)
NaN == [kind |-> "nan", rad |-> 0, deg |-> 1, add |-> 0]

Num(n) == [kind |-> "real", rad |-> 0, deg |-> 1, add |-> n]

IsInt(v) == v.kind = "real" /\ v.deg = 1

RECURSIVE IPow(_, _)
IPow(b, e) == IF e = 0 THEN 1 ELSE b * IPow(b, e - 1)

RECURSIVE Gcd(_, _)
Gcd(a, b) == IF b = 0 THEN a ELSE Gcd(b, a % b)

\* the real m^(1/k) for integers m >= 0, k >= 1, in normal form
Root(m, k) ==
    LET divs == {e \in 1..k : k % e = 0 /\ \E s \in 0..m : IPow(s, e) = m}
        e    == CHOOSE d \in divs : \A d2 \in divs : d2 <= d
        s    == CHOOSE r \in 0..m : IPow(r, e) = m
    IN  IF e = k THEN Num(s)
        ELSE [kind |-> "real", rad |-> s, deg |-> k \div e, add |-> 0]

\* v + n for an integer n
AddInt(v, n) == IF v.kind = "nan" THEN NaN ELSE [v EXCEPT !.add = @ + n]

\* np.power(v, num/den) for a rational exponent num/den >= 0 in lowest terms.
\* A negative base with a fractional exponent is NaN; anything to the power
\* 0 is 1.  v is an integer or a pure surd (add = 0).
Power(v, num, den) ==
    CASE num = 0 -> Num(1)
      [] num # 0 /\ v.kind = "nan" -> NaN
      [] num # 0 /\ IsInt(v) /\ den = 1 -> Num(IPow(v.add, num))
      [] num # 0 /\ IsInt(v) /\ den > 1 ->
            IF v.add < 0 THEN NaN ELSE Root(IPow(v.add, num), den)
      [] num # 0 /\ v.kind = "real" /\ v.deg > 1 /\ v.add = 0 ->
            LET g == Gcd(num, v.deg * den)
            IN  Root(IPow(v.rad, num \div g), (v.deg * den) \div g)

(***************************************************************************)
(* Python values of the constructor parameters power and offset.           *)
(***************************************************************************)
PInt(n)      == [type |-> "int", num |-> n, den |-> 1, str |-> ""]
PFloat(n, d) == [type |-> "float", num |-> n, den |-> d, str |-> ""]
PStr(s)      == [type |-> "str", num |-> 0, den |-> 1, str |-> s]
PNone        == [type |-> "NoneType", num |-> 0, den |-> 1, str |-> ""]

\* isinstance(p, (int, float))
IsIntOrFloat(p) == p.type \in {"int", "float"}

\* the values given to the constructor: powers 0, 1, 2, 3, 0.5 and a string;
\* offsets "auto", 0, 1.0, another string and None
Powers  == {PInt(0), PInt(1), PInt(2), PInt(3), PFloat(1, 2), PStr("2")}
Offsets == {PStr("auto"), PInt(0), PFloat(1, 1), PStr("none"), PNone}

(***************************************************************************)
(* Series and frames.  values[c][t] is observation t of column c; a        *)
(* pd.Series has one column of values and no column labels.                *)
(***************************************************************************)
NoData == [kind |-> "None", index |-> <<>>, columns |-> <<>>, values |-> <<>>]

RECURSIVE SeqsOf(_, _)
SeqsOf(S, n) ==
    IF n = 0 THEN {<<>>}
    ELSE {Append(q, v) : q \in SeqsOf(S, n - 1), v \in S}

\* a time index of n consecutive periods (not the default 0 .. n-1)
TimeIndex(n) == [k \in 1..n |-> 2000 + k]

Observations == {Num(n) : n \in (0 - MaxAbs)..MaxAbs}

\* a pd.Series of one or two observations
SeriesLens == {1, 2}

SeriesInputs ==
    UNION {{[kind |-> "Series", index |-> TimeIndex(n), columns |-> <<>>,
             values |-> <<col>>] : col \in SeqsOf(Observations, n)} : n \in SeriesLens}

FrameInputs ==
    {[kind |-> "DataFrame", index |-> TimeIndex(1), columns |-> <<"a", "b">>,
      values |-> <<<<va>>, <<vb>>>>] : va \in Observations, vb \in Observations}

Inputs == SeriesInputs \cup FrameInputs

\* the least element of a non-empty sequence of integers
SeqMin(col) ==
    LET S == {col[t].add : t \in 1..Len(col)}
    IN  CHOOSE m \in S : \A o \in S : m <= o

Abs(n) == IF n < 0 THEN 0 - n ELSE n

(***************************************************************************)
(* ExponentTransformer                                                     *)
(***************************************************************************)
NoOffset == [type |-> "NoneType", shape |-> <<>>, vals |-> <<>>]

ExponentTransformer__init__(power, offset) ==
    [power |-> power, offset |-> offset, _offset_value |-> NoOffset]

\* min_values of _fit: Z.min() of a Series is a scalar, Z.min(axis=0) of a
\* DataFrame reshaped to one row holds one minimum per column
min_values(Xa) ==
    IF Xa.kind = "Series"
    THEN [shape |-> <<>>, vals |-> <<SeqMin(Xa.values[1])>>]
    ELSE [shape |-> <<1, Len(Xa.values)>>,
          vals  |-> [c \in 1..Len(Xa.values) |-> SeqMin(Xa.values[c])]]

\* auto_offset without np.abs: the negative minimum itself
auto_offset_signed(Xa) ==
    LET m == min_values(Xa)
    IN  [type  |-> "ndarray", shape |-> m.shape,
         vals  |-> [c \in 1..Len(m.vals) |->
                        IF m.vals[c] < 0 THEN m.vals[c] ELSE 0]]

\* np.where(min_values < 0, np.abs(min_values), 0)
auto_offset(Xa) ==
    LET m == min_values(Xa)
    IN  [type  |-> "ndarray", shape |-> m.shape,
         vals  |-> [c \in 1..Len(m.vals) |->
                        IF m.vals[c] < 0 THEN Abs(m.vals[c]) ELSE 0]]

\* _fit with the offset validated before the power
_fit_offset_first(self, Xa) ==
    IF self.offset # PStr("auto") /\ ~IsIntOrFloat(self.offset)
    THEN [self |-> self, raised |-> "ValueError: offset"]
    ELSE IF ~IsIntOrFloat(self.power)
    THEN [self |-> self, raised |-> "ValueError: power"]
    ELSE IF self.offset = PStr("auto")
    THEN [self |-> [self EXCEPT !._offset_value = auto_offset(Xa)], raised |-> "none"]
    ELSE [self |-> [self EXCEPT !._offset_value =
                       [type |-> self.offset.type, shape |-> <<>>,
                        vals |-> <<self.offset.num>>]],
          raised |-> "none"]

\* _fit that keeps the offset of the first fit when the estimator is refitted
_fit_keeps_first(self, Xa) ==
    IF ~IsIntOrFloat(self.power)
    THEN [self |-> self, raised |-> "ValueError: power"]
    ELSE IF self._offset_value # NoOffset
    THEN [self |-> self, raised |-> "none"]
    ELSE IF self.offset = PStr("auto")
    THEN [self |-> [self EXCEPT !._offset_value = auto_offset(Xa)], raised |-> "none"]
    ELSE IF IsIntOrFloat(self.offset)
    THEN [self |-> [self EXCEPT !._offset_value =
                       [type |-> self.offset.type, shape |-> <<>>,
                        vals |-> <<self.offset.num>>]],
          raised |-> "none"]
    ELSE [self |-> self, raised |-> "ValueError: offset"]

\* _fit: the estimator after the call and the exception it raised
_fit(self, Xa) ==
    IF ~IsIntOrFloat(self.power)
    THEN [self |-> self, raised |-> "ValueError: power"]
    ELSE IF self.offset = PStr("auto")
    THEN [self |-> [self EXCEPT !._offset_value = auto_offset(Xa)], raised |-> "none"]
    ELSE IF IsIntOrFloat(self.offset)
    THEN [self |-> [self EXCEPT !._offset_value =
                       [type |-> self.offset.type, shape |-> <<>>,
                        vals |-> <<self.offset.num>>]],
          raised |-> "none"]
    ELSE [self |-> self, raised |-> "ValueError: offset"]

\* numpy broadcasting of the fitted offset against the data: a scalar goes
\* with anything, a row of per-column offsets with a frame of as many columns
Broadcasts(off, d) ==
    /\ off.type # "NoneType"
    /\ d.kind # "None"
    /\ off.shape # <<>> => (d.kind = "DataFrame" /\ off.shape = <<1, Len(d.values)>>)

OffsetAt(off, c) == IF off.shape = <<>> THEN off.vals[1] ELSE off.vals[c]

\* _transform without the offset: np.power(X.copy(), self.power)
_transform_no_offset(self, Xa) ==
    [Xa EXCEPT !.values =
        [c \in 1..Len(Xa.values) |->
            [t \in 1..Len(Xa.values[c]) |->
                Power(Xa.values[c][t], self.power.num, self.power.den)]]]

\* _transform: np.power(X.copy() + self._offset_value, self.power)
_transform(self, Xa) ==
    [Xa EXCEPT !.values =
        [c \in 1..Len(Xa.values) |->
            [t \in 1..Len(Xa.values[c]) |->
                Power(AddInt(Xa.values[c][t], OffsetAt(self._offset_value, c)),
                      self.power.num, self.power.den)]]]

\* _inverse_transform with the exponent power instead of 1.0 / power
_inverse_transform_same_power(self, Xa) ==
    [Xa EXCEPT !.values =
        [c \in 1..Len(Xa.values) |->
            [t \in 1..Len(Xa.values[c]) |->
                AddInt(Power(Xa.values[c][t], self.power.num, self.power.den),
                       0 - OffsetAt(self._offset_value, c))]]]

\* _inverse_transform: np.power(X.copy(), 1.0 / self.power) - self._offset_value
_inverse_transform(self, Xa) ==
    [Xa EXCEPT !.values =
        [c \in 1..Len(Xa.values) |->
            [t \in 1..Len(Xa.values[c]) |->
                AddInt(Power(Xa.values[c][t], self.power.den, self.power.num),
                       0 - OffsetAt(self._offset_value, c))]]]

\* 1.0 / self.power raises ZeroDivisionError when power is 0
inverse_raises(self) == IF self.power.num = 0 THEN "ZeroDivisionError" ELSE "none"

(***************************************************************************)
(* SqrtTransformer                                                         *)
(***************************************************************************)
\* SqrtTransformer.__init__ that does not pass its offset on
SqrtTransformer__init__default_offset(offset) ==
    ExponentTransformer__init__(PFloat(1, 2), PStr("auto"))

SqrtTransformer__init__(offset) == ExponentTransformer__init__(PFloat(1, 2), offset)

\* no PyTorchDataset has been constructed
NoItem ==
    [past_values |-> <<>>, past_time_features |-> <<>>, future_time_features |-> <<>>,
     past_observed_mask |-> <<>>, future_values |-> <<>>]

NoDataset ==
    /\ dataset = [y |-> <<>>, X |-> <<>>, has_X |-> FALSE, seq_len |-> 0, fh |-> 0]
    /\ ds_call = "none"
    /\ ds_i = 0
    /\ ds_len = 0
    /\ item = NoItem

\* the parameters of the wrapped model, by the key from_pretrained reports:
\* two of the inner model (self.model.model), one of the output head
Keys == {"model.embed.weight", "model.embed.bias", "proj.weight"}

NoModel ==
    [loaded |-> FALSE,
     params |-> [k \in Keys |-> [requires_grad |-> FALSE, val |-> "unloaded"]],
     prediction_length |-> 0,
     eval_mode |-> FALSE]

NoDatasetObject == [y |-> <<>>, X |-> <<>>, has_X |-> FALSE, seq_len |-> 0, fh |-> 0]

NoTrainer ==
    [called |-> FALSE,
     requires_grad |-> [k \in Keys |-> FALSE],
     train_dataset |-> NoDatasetObject,
     has_eval |-> FALSE,
     eval_dataset |-> NoDatasetObject]

NoGenerate ==
    [called |-> FALSE, past_values |-> <<>>, past_time_features |-> <<>>,
     future_time_features |-> <<>>]

NotFitted == [is_fitted |-> FALSE, y |-> <<>>, has_X |-> FALSE, X |-> <<>>, cutoff |-> 0]

NoHorizon == [is_relative |-> TRUE, values |-> <<>>]

NoRows == [given |-> FALSE, rows |-> <<>>]

\* no HFTransformersForecaster has been constructed
NoForecaster ==
    /\ fc = [fit_strategy |-> "", validation_split |-> [given |-> FALSE, num |-> 0,
                den |-> 1, low |-> FALSE],
             deterministic |-> FALSE,
             config |-> [context_length |-> 0, lags_sequence |-> <<>>,
                         prediction_length |-> 0]]
    /\ model = NoModel
    /\ info = {}
    /\ trainer = NoTrainer
    /\ fitted = NotFitted
    /\ gen = NoGenerate
    /\ fh_in = NoHorizon
    /\ X_in = NoRows
    /\ y_pred = <<>>
    /\ rng_seeded = FALSE
    /\ f_call = "none"
    /\ f_raised = "none"

\* check_equal_time_index has not been called
NoArray == [kind |-> "None", index |-> <<>>, values |-> <<>>]

NoTimeIndexCheck ==
    /\ first_array = NoArray
    /\ second_array = NoArray
    /\ ti_call = "none"
    /\ ti_raised = "none"

(***************************************************************************)
(* Calls on the transformer.  fit, transform and inverse_transform hand    *)
(* their argument to _fit, _transform and _inverse_transform.  transform   *)
(* and inverse_transform are called on a fitted estimator, with data the   *)
(* fitted offset broadcasts against.                                       *)
(***************************************************************************)
fit(Xa) ==
    LET r == _fit(est, Xa)
    IN  /\ est' = r.self
        /\ raised' = r.raised
        /\ call' = "fit"
        /\ X' = Xa
        /\ fit_on_X' = (r.raised = "none")
        /\ Xt' = NoData /\ Z' = NoData /\ Xinv' = NoData
        /\ UNCHANGED <<sqrt_est, sqrt_Xt, sqrt_Xinv, sqrt_raised, dvars, fvars, ivars>>

transform(Xa) ==
    /\ Broadcasts(est._offset_value, Xa)
    /\ Xt' = _transform(est, Xa)
    /\ X' = Xa
    /\ fit_on_X' = (fit_on_X /\ Xa = X)
    /\ call' = "transform"
    /\ raised' = "none"
    /\ Z' = NoData /\ Xinv' = NoData
    /\ UNCHANGED <<est, sqrt_est, sqrt_Xt, sqrt_Xinv, sqrt_raised, dvars, fvars, ivars>>

inverse_transform(Za) ==
    /\ Broadcasts(est._offset_value, Za)
    /\ Z' = Za
    /\ raised' = inverse_raises(est)
    /\ Xinv' = IF inverse_raises(est) = "none" THEN _inverse_transform(est, Za) ELSE NoData
    /\ call' = "inverse_transform"
    /\ UNCHANGED <<est, sqrt_est, X, Xt, fit_on_X, sqrt_Xt, sqrt_Xinv, sqrt_raised, dvars, fvars, ivars>>

Fit == \E Xa \in Inputs : fit(Xa)

Transform == \E Xa \in Inputs : transform(Xa)

\* inverse_transform of the last transform's result, or of the caller's series
InverseTransform == \E Za \in {Xt, X} : inverse_transform(Za)

InitExponent ==
    /\ est \in {ExponentTransformer__init__(p, o) : p \in Powers, o \in Offsets}
    /\ sqrt_est = SqrtTransformer__init__(PStr("auto"))
    /\ X = NoData /\ Xt = NoData /\ Z = NoData /\ Xinv = NoData
    /\ sqrt_Xt = NoData /\ sqrt_Xinv = NoData
    /\ fit_on_X = FALSE
    /\ call = "__init__"
    /\ raised = "none"
    /\ sqrt_raised = "none"
    /\ NoDataset
    /\ NoForecaster
    /\ NoTimeIndexCheck

NextExponent == Fit \/ Transform \/ InverseTransform

SpecExponent == InitExponent /\ [][NextExponent]_vars

(***************************************************************************)
(* SqrtTransformer(offset=o) beside ExponentTransformer(power=0.5,         *)
(* offset=o): every call is made on both objects with the same argument    *)
(* (inverse_transform of a transform result: each object's own result).    *)
(***************************************************************************)
SqrtFit ==
    \E Xa \in Inputs :
        LET r == _fit(est, Xa)
            q == _fit(sqrt_est, Xa)
        IN  /\ est' = r.self /\ raised' = r.raised
            /\ sqrt_est' = q.self /\ sqrt_raised' = q.raised
            /\ call' = "fit"
            /\ X' = Xa
            /\ fit_on_X' = (r.raised = "none")
            /\ Xt' = NoData /\ Z' = NoData /\ Xinv' = NoData
            /\ sqrt_Xt' = NoData /\ sqrt_Xinv' = NoData
            /\ UNCHANGED <<dvars, fvars, ivars>>

SqrtTransform ==
    \E Xa \in Inputs :
        /\ Broadcasts(est._offset_value, Xa)
        /\ Broadcasts(sqrt_est._offset_value, Xa)
        /\ Xt' = _transform(est, Xa)
        /\ sqrt_Xt' = _transform(sqrt_est, Xa)
        /\ X' = Xa
        /\ fit_on_X' = (fit_on_X /\ Xa = X)
        /\ call' = "transform"
        /\ raised' = "none" /\ sqrt_raised' = "none"
        /\ Z' = NoData /\ Xinv' = NoData /\ sqrt_Xinv' = NoData
        /\ UNCHANGED <<est, sqrt_est, dvars, fvars, ivars>>

SqrtInverseTransform ==
    \E own \in BOOLEAN :
        LET Za == IF own THEN Xt ELSE X
            Zs == IF own THEN sqrt_Xt ELSE X
        IN  /\ Broadcasts(est._offset_value, Za)
            /\ Broadcasts(sqrt_est._offset_value, Zs)
            /\ Z' = Za
            /\ raised' = inverse_raises(est)
            /\ sqrt_raised' = inverse_raises(sqrt_est)
            /\ Xinv' = IF inverse_raises(est) = "none"
                       THEN _inverse_transform(est, Za) ELSE NoData
            /\ sqrt_Xinv' = IF inverse_raises(sqrt_est) = "none"
                            THEN _inverse_transform(sqrt_est, Zs) ELSE NoData
            /\ call' = "inverse_transform"
            /\ UNCHANGED <<est, sqrt_est, X, Xt, fit_on_X, sqrt_Xt, dvars, fvars, ivars>>

InitSqrt ==
    /\ \E o \in Offsets :
        /\ est = ExponentTransformer__init__(PFloat(1, 2), o)
        /\ sqrt_est = SqrtTransformer__init__(o)
    /\ X = NoData /\ Xt = NoData /\ Z = NoData /\ Xinv = NoData
    /\ sqrt_Xt = NoData /\ sqrt_Xinv = NoData
    /\ fit_on_X = FALSE
    /\ call = "__init__"
    /\ raised = "none"
    /\ sqrt_raised = "none"
    /\ NoDataset
    /\ NoForecaster
    /\ NoTimeIndexCheck

NextSqrt == SqrtFit \/ SqrtTransform \/ SqrtInverseTransform

SpecSqrt == InitSqrt /\ [][NextSqrt]_vars

(***************************************************************************)
(* PyTorchDataset.  y and X are numpy arrays, indexed from 0 in the code    *)
(* and from 1 here; X is a sequence of rows, or absent (has_X = FALSE).    *)
(***************************************************************************)
\* longest target series
MaxN == 10
\* largest window length seq_len
MaxW == 4
\* largest horizon fh
MaxH == 2

Max(a, b) == IF a >= b THEN a ELSE b

Min(a, b) == IF a <= b THEN a ELSE b

\* the Python slice s[a:b] for 0 <= a <= b: it stops at the end of s
Slice(s, a, b) == SubSeq(s, a + 1, Min(b, Len(s)))

\* .float(): the float32 nearest to v; integers up to 2^24 in magnitude are
\* kept, an odd integer between 2^24 and 2^25 goes to its neighbour that is
\* a multiple of 4
Float32(v) ==
    IF v.kind = "nan" \/ v.deg # 1 THEN v
    ELSE IF Abs(v.add) <= 16777216 \/ v.add % 2 = 0 THEN v
    ELSE IF (v.add + 1) % 4 = 0 THEN Num(v.add + 1)
    ELSE Num(v.add - 1)

ToFloat(s) == [k \in 1..Len(s) |-> Float32(s[k])]

PyTorchDataset__init__(y, seq_len, fh, Xa, has_X) ==
    [y |-> y, X |-> IF has_X THEN Xa ELSE <<>>, has_X |-> has_X,
     seq_len |-> seq_len, fh |-> fh]

\* a length that leaves out the last offset at which a window fits
__len__without_last(self) == Max(Len(self.y) - self.seq_len - self.fh, 0)

\* __len__ without the lower limit 0
__len__unclamped(self) == Len(self.y) - self.seq_len - self.fh + 1

__len__(self) == Max(Len(self.y) - self.seq_len - self.fh + 1, 0)

\* [[]] * n: n empty rows
EmptyRows(n) == [k \in 1..n |-> <<>>]

\* __getitem__ with the two exogenous windows taken from each other's place
__getitem__exog_swapped(self, i) ==
    LET hist_y == ToFloat(Slice(self.y, i, i + self.seq_len))
        exog_data ==
            IF self.has_X
            THEN [k \in 1..Len(Slice(self.X, i, i + self.seq_len)) |->
                    ToFloat(Slice(self.X, i, i + self.seq_len)[k])]
            ELSE EmptyRows(self.seq_len)
        hist_exog ==
            IF self.has_X
            THEN [k \in 1..Len(Slice(self.X, i + self.seq_len, i + self.seq_len + self.fh)) |->
                    ToFloat(Slice(self.X, i + self.seq_len, i + self.seq_len + self.fh)[k])]
            ELSE EmptyRows(self.fh)
    IN  [past_values          |-> hist_y,
         past_time_features   |-> hist_exog,
         future_time_features |-> exog_data,
         past_observed_mask   |-> [k \in 1..Len(hist_y) |->
                                      IF hist_y[k].kind = "nan" THEN 0 ELSE 1],
         future_values        |->
             ToFloat(Slice(self.y, i + self.seq_len, i + self.seq_len + self.fh))]

__getitem__(self, i) ==
    LET hist_y == ToFloat(Slice(self.y, i, i + self.seq_len))
        exog_data ==
            IF self.has_X
            THEN [k \in 1..Len(Slice(self.X, i + self.seq_len, i + self.seq_len + self.fh)) |->
                    ToFloat(Slice(self.X, i + self.seq_len, i + self.seq_len + self.fh)[k])]
            ELSE EmptyRows(self.seq_len)
        hist_exog ==
            IF self.has_X
            THEN [k \in 1..Len(Slice(self.X, i, i + self.seq_len)) |->
                    ToFloat(Slice(self.X, i, i + self.seq_len)[k])]
            ELSE EmptyRows(self.fh)
    IN  [past_values          |-> hist_y,
         past_time_features   |-> hist_exog,
         future_time_features |-> exog_data,
         past_observed_mask   |-> [k \in 1..Len(hist_y) |->
                                      IF hist_y[k].kind = "nan" THEN 0 ELSE 1],
         future_values        |->
             ToFloat(Slice(self.y, i + self.seq_len, i + self.seq_len + self.fh))]

\* target series of n observations, all different, one of them possibly
\* missing; the exogenous rows that go with them
Series_y(n, missing) == [k \in 1..n |-> IF k = missing THEN NaN ELSE Num(100 + k)]

Exog_X(n) == [k \in 1..n |-> <<Num(200 + k), Num(300 + k)>>]

Len__ ==
    /\ ds_call # "none"
    /\ ds_len' = __len__(dataset)
    /\ ds_call' = "__len__"
    /\ UNCHANGED <<dataset, ds_i, item, tvars, fvars, ivars>>

\* an index inside the dataset, or past its end up to the end of y
GetItem ==
    /\ ds_call # "none"
    /\ \E i \in 0..Len(dataset.y) :
        /\ item' = __getitem__(dataset, i)
        /\ ds_i' = i
    /\ ds_call' = "__getitem__"
    /\ UNCHANGED <<dataset, ds_len, tvars, fvars, ivars>>

NoTransformer ==
    /\ est = ExponentTransformer__init__(PFloat(1, 2), PStr("auto"))
    /\ sqrt_est = SqrtTransformer__init__(PStr("auto"))
    /\ X = NoData /\ Xt = NoData /\ Z = NoData /\ Xinv = NoData
    /\ sqrt_Xt = NoData /\ sqrt_Xinv = NoData
    /\ fit_on_X = FALSE
    /\ call = "__init__"
    /\ raised = "none"
    /\ sqrt_raised = "none"

InitDataset ==
    /\ \E n \in 0..MaxN, missing \in 0..MaxN, w \in 1..MaxW, h \in 1..MaxH,
          has_X \in BOOLEAN :
        /\ missing <= n
        /\ dataset = PyTorchDataset__init__(Series_y(n, missing), w, h, Exog_X(n), has_X)
    /\ ds_call = "__init__"
    /\ ds_i = 0
    /\ ds_len = 0
    /\ item = NoItem
    /\ NoTransformer
    /\ NoForecaster
    /\ NoTimeIndexCheck

NextDataset == Len__ \/ GetItem

SpecDataset == InitDataset /\ [][NextDataset]_vars

(***************************************************************************)
(* HFTransformersForecaster._fit.  from_pretrained, Trainer.train and      *)
(* model.generate belong to the transformers library: what they return is  *)
(* an input of the call, what they are given is recorded.                  *)
(***************************************************************************)
\* the module attribute the re-initialisation assigns for a mismatched key:
\* key.split(".")[:-1] walks to the module, whose .weight is replaced
WeightOf(key) ==
    CASE key = "model.embed.weight" -> "model.embed.weight"
      [] key = "model.embed.bias"   -> "model.embed.weight"
      [] key = "proj.weight"        -> "proj.weight"

\* the parameters of self.model.model
InnerKeys == {"model.embed.weight", "model.embed.bias"}

\* what from_pretrained returns: the parameter values ("ok" within
\* [-1000, 1000], "big" outside it, "nan") and info["mismatched_keys"]
AllOk == [k \in Keys |-> "ok"]

Loadings ==
    {[vals |-> AllOk, mismatched_keys |-> {}],
     [vals |-> [AllOk EXCEPT !["model.embed.weight"] = "big"], mismatched_keys |-> {}],
     [vals |-> [AllOk EXCEPT !["proj.weight"] = "big"], mismatched_keys |-> {}],
     [vals |-> AllOk, mismatched_keys |-> {"model.embed.weight"}],
     [vals |-> [AllOk EXCEPT !["model.embed.weight"] = "nan"],
      mismatched_keys |-> {"model.embed.weight"}],
     [vals |-> AllOk, mismatched_keys |-> {"model.embed.bias"}],
     [vals |-> AllOk, mismatched_keys |-> {"proj.weight"}],
     [vals |-> AllOk, mismatched_keys |-> Keys]}

\* parameters are created trainable
from_pretrained(vals) == [k \in Keys |-> [requires_grad |-> TRUE, val |-> vals[k]]]

\* for param in self.model.parameters(): param.requires_grad = False
freeze(params) == [k \in Keys |-> [params[k] EXCEPT !.requires_grad = FALSE]]

\* for param in self.model.model.parameters(): param.clamp_(-1000, 1000)
clamp(params) ==
    [k \in Keys |->
        IF k \in InnerKeys /\ params[k].val = "big"
        THEN [params[k] EXCEPT !.val = "clamped"]
        ELSE params[k]]

\* for every mismatched key the module's weight becomes a new trainable
\* Parameter, its NaNs filled with 0.001
reinit(params, mismatched_keys) ==
    [k \in Keys |->
        IF \E key \in mismatched_keys : WeightOf(key) = k
        THEN [requires_grad |-> TRUE,
              val |-> IF params[k].val = "nan" THEN "filled" ELSE params[k].val]
        ELSE params[k]]

\* for param in self.model.parameters(): param.requires_grad = True
unfreeze(params) == [k \in Keys |-> [params[k] EXCEPT !.requires_grad = TRUE]]

\* int(len(y) * (1 - validation_split)) in float64: 1 - v is exact or the
\* nearest double for v = 0.2 and 0.5, and lies below 1 - v for v = 0.8
\* (0.19999999999999996), where an integral product comes out one lower
split_point(n, v) ==
    LET exact == (n * (v.den - v.num)) \div v.den
    IN  IF v.low /\ (n * (v.den - v.num)) % v.den = 0 /\ n > 0
        THEN exact - 1 ELSE exact

\* max(config.lags_sequence)
MaxOf(q) == CHOOSE m \in {q[k] : k \in 1..Len(q)} : \A k \in 1..Len(q) : q[k] <= m

seq_len_of(config) == config.context_length + MaxOf(config.lags_sequence)

\* the fit_strategy switch with the test for mismatched keys left out
fit_branch_always_train(fit_strategy, mismatched_keys) ==
    IF fit_strategy = "minimal" THEN "train"
    ELSE IF fit_strategy = "full" THEN "unfreeze and train"
    ELSE "raise"

\* what the fit_strategy switch does: return without training, train, or raise
fit_branch(fit_strategy, mismatched_keys) ==
    IF fit_strategy = "minimal"
    THEN IF Cardinality(mismatched_keys) = 0 THEN "return" ELSE "train"
    ELSE IF fit_strategy = "full" THEN "unfreeze and train"
    ELSE "raise"

\* trainer.train() updates the parameters that require a gradient
train(params) ==
    [k \in Keys |->
        IF params[k].requires_grad THEN [params[k] EXCEPT !.val = "trained"]
        ELSE params[k]]

FitLens == {5, 10}

HF_fit ==
    \E n \in FitLens, has_X \in BOOLEAN, loading \in Loadings :
        LET y       == Series_y(n, 0)
            vals    == loading.vals
            mismatched_keys == loading.mismatched_keys
            Xa      == IF has_X THEN Exog_X(n) ELSE <<>>
            config  == fc.config
            loaded  == reinit(clamp(freeze(from_pretrained(vals))), mismatched_keys)
            v       == fc.validation_split
            split   == split_point(n, v)
            train_dataset ==
                IF v.given
                THEN PyTorchDataset__init__(SubSeq(y, 1, split), seq_len_of(config),
                         config.prediction_length, SubSeq(Xa, 1, split), has_X)
                ELSE PyTorchDataset__init__(y, seq_len_of(config),
                         config.prediction_length, Xa, has_X)
            eval_dataset ==
                IF v.given
                THEN PyTorchDataset__init__(SubSeq(y, split + 1, n), seq_len_of(config),
                         config.prediction_length, SubSeq(Xa, split + 1, Len(Xa)), has_X)
                ELSE NoDatasetObject
            branch  == fit_branch(fc.fit_strategy, mismatched_keys)
            ready   == IF branch = "unfreeze and train" THEN unfreeze(loaded) ELSE loaded
            trains  == branch \in {"train", "unfreeze and train"}
        IN  /\ info' = mismatched_keys
            /\ model' = [loaded |-> TRUE,
                         params |-> IF trains THEN train(ready) ELSE ready,
                         prediction_length |-> config.prediction_length,
                         eval_mode |-> FALSE]
            /\ trainer' = IF trains
                          THEN [called |-> TRUE,
                                requires_grad |-> [k \in Keys |-> ready[k].requires_grad],
                                train_dataset |-> train_dataset,
                                has_eval |-> v.given,
                                eval_dataset |-> eval_dataset]
                          ELSE NoTrainer
            /\ f_raised' = IF branch = "raise" THEN "Exception: Unknown fit strategy"
                           ELSE "none"
            /\ fitted' = IF branch = "raise" THEN NotFitted
                         ELSE [is_fitted |-> TRUE, y |-> y, has_X |-> has_X, X |-> Xa,
                               cutoff |-> n]
            /\ f_call' = "fit"
            /\ gen' = NoGenerate /\ fh_in' = NoHorizon /\ X_in' = NoRows /\ y_pred' = <<>>
            /\ UNCHANGED <<fc, rng_seeded, tvars, dvars, ivars>>

(***************************************************************************)
(* HFTransformersForecaster._predict.  The target series is indexed by the *)
(* periods 1 .. n, so the cutoff of a series of n observations is n.       *)
(***************************************************************************)
\* fh.to_relative(cutoff)._values
to_relative(fh, cutoff) ==
    IF fh.is_relative THEN fh.values
    ELSE [k \in 1..Len(fh.values) |-> fh.values[k] - cutoff]

MinOf(q) == CHOOSE m \in {q[k] : k \in 1..Len(q)} : \A k \in 1..Len(q) : m <= q[k]

\* the test that rejects a horizon, made on its largest offset
rejects_all_in_sample(rel) == MaxOf(rel) < 0

\* min(fh._values) < 0
rejects_in_sample(rel) == MinOf(rel) < 0

\* a resize that pads with the last row instead of starting over
resize_rows_repeat_last(rows, n) == [k \in 1..n |-> rows[Min(k, Len(rows))]]

\* np.resize to n rows: the rows repeated in order
resize_rows(rows, n) == [k \in 1..n |-> rows[((k - 1) % Len(rows)) + 1]]

\* the last n rows: hist_x[:, -n:]
LastRows(rows, n) == SubSeq(rows, Max(Len(rows) - n, 0) + 1, Len(rows))

\* the horizons passed to predict: relative ones, and absolute periods
Horizons ==
    {[is_relative |-> TRUE, values |-> q] :
        q \in {<<1>>, <<1, 2>>, <<2, 3>>, <<0>>, <<0, 1>>, <<0 - 1>>, <<0 - 1, 1>>}}
    \cup {[is_relative |-> FALSE, values |-> q] : q \in {<<6>>, <<5, 6>>, <<11, 12>>}}

\* the future exogenous data passed to predict: none, one row, three rows
FutureX ==
    {NoRows} \cup
    {[given |-> TRUE, rows |-> [k \in 1..r |-> <<Num(400 + k), Num(500 + k)>>]] :
        r \in {1, 3}}

HF_predict ==
    /\ fitted.is_fitted
    /\ \E fh \in Horizons, Xf \in FutureX, generate_fails \in BOOLEAN :
        LET rel       == to_relative(fh, fitted.cutoff)
            rejected  == rejects_in_sample(rel)
            L         == MaxOf(rel)
            no_hist_X == Xf.given /\ ~fitted.has_X
            x_        == IF Xf.given
                         THEN IF Len(Xf.rows) < L THEN resize_rows(Xf.rows, L)
                              ELSE Xf.rows
                         ELSE EmptyRows(L)
            hist_x    == IF Xf.given THEN fitted.X
                         ELSE EmptyRows(seq_len_of(fc.config))
            generated == ~rejected /\ ~no_hist_X
            \* the forecast is indexed by cutoff + 1 .. cutoff + L; .loc with a
            \* period outside it raises KeyError
            outcome   ==
                CASE rejected -> "NotImplementedError"
                  [] ~rejected /\ no_hist_X -> "AttributeError"
                  [] generated /\ generate_fails -> "RuntimeError"
                  [] generated /\ ~generate_fails
                        /\ (\E k \in 1..Len(rel) : rel[k] < 1 \/ rel[k] > L) -> "KeyError"
                  [] OTHER -> "none"
        IN  \* generate on a prediction length of 0 may fail inside the library
            /\ generate_fails => (generated /\ L = 0)
            /\ fh_in' = fh
            /\ X_in' = Xf
            /\ rng_seeded' = (rng_seeded \/ fc.deterministic)
            /\ model' = IF rejected THEN model
                        ELSE [model EXCEPT !.eval_mode = TRUE, !.prediction_length = L]
            /\ gen' = IF generated
                      THEN [called |-> TRUE,
                            past_values |-> fitted.y,
                            past_time_features |-> LastRows(hist_x, seq_len_of(fc.config)),
                            future_time_features |-> x_]
                      ELSE NoGenerate
            /\ f_raised' = outcome
            /\ y_pred' = IF outcome = "none"
                         THEN [k \in 1..Len(rel) |->
                                  [index |-> fitted.cutoff + rel[k], step |-> rel[k]]]
                         ELSE <<>>
            /\ f_call' = "predict"
            /\ UNCHANGED <<fc, info, trainer, fitted, tvars, dvars, ivars>>

InitForecaster ==
    /\ \E fit_strategy \in {"minimal", "full", "partial"},
          validation_split \in
              {[given |-> FALSE, num |-> 0, den |-> 1, low |-> FALSE],
               [given |-> TRUE, num |-> 1, den |-> 5, low |-> FALSE],
               [given |-> TRUE, num |-> 1, den |-> 2, low |-> FALSE],
               [given |-> TRUE, num |-> 4, den |-> 5, low |-> TRUE]},
          deterministic \in BOOLEAN :
        fc = [fit_strategy |-> fit_strategy, validation_split |-> validation_split,
              deterministic |-> deterministic,
              config |-> [context_length |-> 1, lags_sequence |-> <<1>>,
                          prediction_length |-> 2]]
    /\ model = NoModel
    /\ info = {}
    /\ trainer = NoTrainer
    /\ fitted = NotFitted
    /\ gen = NoGenerate
    /\ fh_in = NoHorizon
    /\ X_in = NoRows
    /\ y_pred = <<>>
    /\ rng_seeded = FALSE
    /\ f_call = "__init__"
    /\ f_raised = "none"
    /\ NoTransformer
    /\ NoDataset
    /\ NoTimeIndexCheck

NextForecaster == HF_fit \/ HF_predict

SpecForecaster == InitForecaster /\ [][NextForecaster]_vars

(***************************************************************************)
(* check_equal_time_index(first_array, second_array).  The validator is    *)
(* defined in sktime/utils/validation/series.py; it is modelled from its   *)
(* description, a validator of the equality of time indices: the time      *)
(* index of a numpy array is its positions 0 .. n-1, that of a pandas      *)
(* Series is its index, and the call raises when the two differ.           *)
(***************************************************************************)
\* arrays and series passed to the validator hold up to MaxArrayLen values
MaxArrayLen == 3

ArrayValues == {0, 1}

ValueSeqs == UNION {[1..n -> ArrayValues] : n \in 0..MaxArrayLen}

\* pd.RangeIndex(n)
RangeIndex(n) == [k \in 1..n |-> k - 1]

\* numpy arrays of any values, and pandas Series indexed from 0 or from 1
TimeIndexInputs ==
    {[kind |-> "ndarray", index |-> <<>>, values |-> v] : v \in ValueSeqs}
    \cup {[kind |-> "Series", index |-> [k \in 1..n |-> start + k - 1],
           values |-> [k \in 1..n |-> 0]] : n \in 0..MaxArrayLen, start \in {0, 1}}

\* an index made of the values of the array
time_index_from_values(a) == IF a.kind = "ndarray" THEN a.values ELSE a.index

\* the time index of an input
time_index(a) == IF a.kind = "ndarray" THEN RangeIndex(Len(a.values)) ELSE a.index

\* the exception the validator raises, or "none"
check_equal_time_index(a, b) ==
    IF time_index(a) = time_index(b) THEN "none" ELSE "ValueError"

CheckEqualTimeIndex ==
    \E a \in TimeIndexInputs, b \in TimeIndexInputs :
        /\ first_array' = a
        /\ second_array' = b
        /\ ti_raised' = check_equal_time_index(a, b)
        /\ ti_call' = "check_equal_time_index"
        /\ UNCHANGED <<tvars, dvars, fvars>>

InitTimeIndex ==
    /\ NoTimeIndexCheck
    /\ NoTransformer
    /\ NoDataset
    /\ NoForecaster

NextTimeIndex == CheckEqualTimeIndex

SpecTimeIndex == InitTimeIndex /\ [][NextTimeIndex]_vars

(***************************************************************************)
(* Properties of ExponentTransformer and SqrtTransformer                   *)
(***************************************************************************)
Cells(d) == {<<c, t>> : c \in 1..Len(d.values), t \in 1..Len(d.index)}

\* the state after fit(X), Xt = transform(X), Xinv = inverse_transform(Xt)
RoundTripDone ==
    /\ call = "inverse_transform"
    /\ raised = "none"
    /\ fit_on_X
    /\ Xt # NoData
    /\ Z = Xt

LiteralOffset == IsIntOrFloat(est.offset)

\* every element of d is a real number (no NaN)
AllReal(d) == \A ct \in Cells(d) : d.values[ct[1]][ct[2]].kind = "real"

\* C1 as stated: after fit(X), inverse_transform(transform(X)) equals X
\* elementwise for every power # 0 and every offset setting, wherever the
\* results are real numbers.
C1_RoundTripAlways ==
    (RoundTripDone /\ est.power.num # 0 /\ AllReal(Xt) /\ AllReal(Xinv)) => Xinv = X

\* what the round trip returns for the element x under offset off
RoundTripOf(x, off, p) ==
    IF x + off >= 0 \/ p = PInt(1) THEN Num(x)
    ELSE IF p.den = 1 /\ p.num % 2 = 0 THEN Num(Abs(x + off) - off)
    ELSE NaN

\* C1 amended: after fit(X), inverse_transform(transform(X)) has the index
\* and columns of X and returns x for every element with x + offset >= 0
\* (every element, when offset = "auto") and whenever power = 1; for an
\* element with x + offset < 0 it returns |x + offset| - offset under an even
\* power and NaN under the other powers.
C1_RoundTripNonNegative ==
    (RoundTripDone /\ est.power.num # 0) =>
        /\ Xinv.kind = X.kind /\ Xinv.index = X.index /\ Xinv.columns = X.columns
        /\ \A ct \in Cells(X) :
              Xinv.values[ct[1]][ct[2]] =
                  RoundTripOf(X.values[ct[1]][ct[2]].add,
                              OffsetAt(est._offset_value, ct[1]), est.power)
        /\ est.offset = PStr("auto") => Xinv = X

\* a round trip under an even power and a literal offset that restores a
\* negative observation
C1_Witness ==
    /\ RoundTripDone
    /\ est.power = PInt(2)
    /\ LiteralOffset
    /\ \E ct \in Cells(X) : X.values[ct[1]][ct[2]].add < 0
    /\ Xinv = X

IsMinOf(m, col) ==
    /\ \E t \in 1..Len(col) : col[t].add = m
    /\ \A t \in 1..Len(col) : m <= col[t].add

\* C2: with offset = "auto" the fitted offset holds, for each column, the
\* magnitude of the column's minimum when that is negative and 0 otherwise
\* (one scalar for a Series); with a literal offset it is that number,
\* whatever the data.
C2_AutoOffset ==
    /\ (fit_on_X /\ est.offset = PStr("auto")) =>
          /\ est._offset_value.type = "ndarray"
          /\ Len(est._offset_value.vals) = Len(X.values)
          /\ est._offset_value.shape =
                (IF X.kind = "Series" THEN <<>> ELSE <<1, Len(X.values)>>)
          /\ \A c \in 1..Len(X.values) :
                \E m \in (0 - MaxAbs)..MaxAbs :
                    /\ IsMinOf(m, X.values[c])
                    /\ est._offset_value.vals[c] = (IF m < 0 THEN 0 - m ELSE 0)
    /\ (est._offset_value # NoOffset /\ LiteralOffset) =>
          /\ est._offset_value.type = est.offset.type
          /\ est._offset_value.shape = <<>>
          /\ est._offset_value.vals = <<est.offset.num>>

\* a frame fitted with "auto" whose columns get different offsets
C2_Witness ==
    /\ call = "fit" /\ fit_on_X
    /\ est.offset = PStr("auto")
    /\ X.kind = "DataFrame"
    /\ X.values[1][1].add < 0
    /\ X.values[2][1].add > 0
    /\ est._offset_value.vals = <<0 - X.values[1][1].add, 0>>

\* v is the real y^(num/den): an integer power is the repeated product, a
\* square root is the non-negative number whose square is y (NaN for y < 0)
IsPowerOf(v, y, p) ==
    IF p.den = 1 THEN v = Num(IPow(y, p.num))
    ELSE IF y < 0 THEN v = NaN
    ELSE /\ v.kind = "real"
         /\ IF v.deg = 1 THEN v.add >= 0 /\ IPow(v.add, p.den) = IPow(y, p.num)
            ELSE v.add = 0 /\ v.deg = p.den /\ v.rad = IPow(y, p.num)

\* C3: transform returns (x + offset) ** power for every element x, with the
\* fitted offset, and keeps the time index, the columns and the shape.
C3_Transform ==
    call = "transform" =>
        /\ Xt.kind = X.kind
        /\ Xt.index = X.index
        /\ Xt.columns = X.columns
        /\ Len(Xt.values) = Len(X.values)
        /\ \A c \in 1..Len(X.values) : Len(Xt.values[c]) = Len(X.values[c])
        /\ \A ct \in Cells(X) :
              IsPowerOf(Xt.values[ct[1]][ct[2]],
                        X.values[ct[1]][ct[2]].add + OffsetAt(est._offset_value, ct[1]),
                        est.power)

\* a transform under power 2 and a non-zero offset
C3_Witness ==
    /\ call = "transform"
    /\ est.power = PInt(2)
    /\ est._offset_value.vals = <<1>>
    /\ X.values = <<<<Num(1), Num(0 - 1)>>>>
    /\ Xt.values = <<<<Num(4), Num(0)>>>>

\* C4: fit raises ValueError when power is no int or float (checked first)
\* and when offset is neither "auto" nor an int or float; a failing fit
\* leaves the fitted offset as it was.
C4_FitValidation ==
    [][call' = "fit" =>
        /\ ~IsIntOrFloat(est.power) => raised' = "ValueError: power"
        /\ (IsIntOrFloat(est.power) /\ est.offset # PStr("auto")
              /\ ~IsIntOrFloat(est.offset)) => raised' = "ValueError: offset"
        /\ (IsIntOrFloat(est.power)
              /\ (est.offset = PStr("auto") \/ IsIntOrFloat(est.offset)))
                 => raised' = "none"
        /\ raised' # "none" => est' = est]_vars

\* a fit with both parameters invalid reports the power
C4_Witness ==
    /\ call = "fit"
    /\ ~IsIntOrFloat(est.power) /\ ~IsIntOrFloat(est.offset)
    /\ raised = "ValueError: power"
    /\ est._offset_value = NoOffset

\* C5: SqrtTransformer(offset=o) and ExponentTransformer(power=0.5, offset=o)
\* have the same parameters, the same fitted offset and the same results
\* after every call.
C5_SqrtEquivalent ==
    /\ sqrt_est.power = PFloat(1, 2)
    /\ sqrt_est.offset = est.offset
    /\ sqrt_est._offset_value = est._offset_value
    /\ sqrt_raised = raised
    /\ sqrt_Xt = Xt
    /\ sqrt_Xinv = Xinv

\* both transformers fitted with a literal offset and taken through a round trip
C5_Witness ==
    /\ call = "inverse_transform"
    /\ sqrt_est.offset = PFloat(1, 1)
    /\ sqrt_est._offset_value.vals = <<1>>
    /\ Z = Xt /\ Xt # NoData
    /\ sqrt_Xinv = X

(***************************************************************************)
(* Properties of PyTorchDataset                                            *)
(***************************************************************************)
\* the offsets i at which a window of seq_len + fh observations fits into y
ValidOffsets(self) ==
    {i \in 0..Len(self.y) : i + self.seq_len + self.fh <= Len(self.y)}

\* C6: len(dataset) is max(n - w - h + 1, 0): the number of offsets at which
\* a whole window fits, 5 for n = 10, w = 4, h = 2, and 0, never a negative
\* number, when w + h > n.
C6_Length ==
    ds_call = "__len__" =>
        LET n == Len(dataset.y)
            w == dataset.seq_len
            h == dataset.fh
        IN  /\ ds_len = Cardinality(ValidOffsets(dataset))
            /\ ds_len >= 0
            /\ w + h > n => ds_len = 0
            /\ w + h <= n => ds_len = n - w - h + 1
            /\ (n = 10 /\ w = 4 /\ h = 2) => ds_len = 5

\* the length of the dataset of 10 observations with window 4 and horizon 2
C6_Witness ==
    /\ ds_call = "__len__"
    /\ Len(dataset.y) = 10 /\ dataset.seq_len = 4 /\ dataset.fh = 2
    /\ ds_len = 5

\* C7: the item at a valid index i holds past_values = y[i .. i+w-1],
\* future_values = y[i+w .. i+w+h-1] and, with exogenous data,
\* past_time_features = X[i .. i+w-1], future_time_features =
\* X[i+w .. i+w+h-1]; every window is whole and lies inside the series, and
\* the future window starts right after the history window.
C7_ItemWindows ==
    (ds_call = "__getitem__" /\ ds_i \in ValidOffsets(dataset)) =>
        LET w == dataset.seq_len
            h == dataset.fh
        IN  /\ ds_i + w + h <= Len(dataset.y)
            /\ Len(item.past_values) = w
            /\ \A k \in 1..w : item.past_values[k] = dataset.y[ds_i + k]
            /\ Len(item.future_values) = h
            /\ \A k \in 1..h : item.future_values[k] = dataset.y[ds_i + w + k]
            /\ dataset.has_X =>
                  /\ Len(item.past_time_features) = w
                  /\ \A k \in 1..w : item.past_time_features[k] = dataset.X[ds_i + k]
                  /\ Len(item.future_time_features) = h
                  /\ \A k \in 1..h :
                        item.future_time_features[k] = dataset.X[ds_i + w + k]

\* an item with exogenous data, taken at an index other than 0
C7_Witness ==
    /\ ds_call = "__getitem__"
    /\ dataset.has_X
    /\ ds_i = 2 /\ dataset.seq_len = 3 /\ dataset.fh = 2
    /\ Len(dataset.y) = 8
    /\ item.past_values = <<Num(103), Num(104), Num(105)>>
    /\ item.future_values = <<Num(106), Num(107)>>
    /\ item.future_time_features = <<dataset.X[6], dataset.X[7]>>

\* C17: the item at a valid index has as many rows of past_time_features
\* as past_values (the window length) and as many rows of
\* future_time_features as future_values (the horizon), with exogenous data
\* and, as empty placeholder rows, without.
C17_ExogRowCounts ==
    (ds_call = "__getitem__" /\ ds_i \in ValidOffsets(dataset)) =>
        /\ Len(item.past_values) = dataset.seq_len
        /\ Len(item.past_time_features) = dataset.seq_len
        /\ Len(item.future_values) = dataset.fh
        /\ Len(item.future_time_features) = dataset.fh
        /\ ~dataset.has_X =>
              /\ item.past_time_features = EmptyRows(dataset.seq_len)
              /\ item.future_time_features = EmptyRows(dataset.fh)

(***************************************************************************)
(* Properties of HFTransformersForecaster                                  *)
(***************************************************************************)
\* C8: trainer.train() runs exactly when fit_strategy is "full", or is
\* "minimal" with a mismatched parameter; "minimal" without one returns
\* untrained; under "full" every parameter requires a gradient when training
\* starts; any other strategy raises and never trains.
C8_FitStrategy ==
    f_call = "fit" =>
        /\ trainer.called <=>
              \/ fc.fit_strategy = "full"
              \/ fc.fit_strategy = "minimal" /\ info # {}
        /\ (fc.fit_strategy = "minimal" /\ info = {}) =>
              /\ ~trainer.called
              /\ f_raised = "none"
              /\ fitted.is_fitted
        /\ fc.fit_strategy = "full" =>
              /\ f_raised = "none"
              /\ \A k \in Keys : trainer.requires_grad[k]
        /\ fc.fit_strategy \notin {"minimal", "full"} =>
              /\ f_raised = "Exception: Unknown fit strategy"
              /\ ~trainer.called
              /\ \A k \in Keys : model.params[k].val # "trained"

\* a "minimal" fit that trains, with a parameter still frozen
C8_Witness ==
    /\ f_call = "fit"
    /\ fc.fit_strategy = "minimal"
    /\ info = {"proj.weight"}
    /\ trainer.called
    /\ ~trainer.requires_grad["model.embed.weight"]
    /\ model.params["proj.weight"].val = "trained"

\* the horizon of the last predict, relative to the cutoff
RelativeHorizon == to_relative(fh_in, fitted.cutoff)

HasOffsetBelow(bound) ==
    \E k \in 1..Len(RelativeHorizon) : RelativeHorizon[k] < bound

\* C9: predict with a horizon that holds a negative relative offset raises
\* NotImplementedError, without calling the model, without changing the
\* model or its configuration, and returns nothing.
C9_NegativeHorizon ==
    [][(f_call' = "predict" /\ HasOffsetBelow(0)') =>
          /\ f_raised' = "NotImplementedError"
          /\ ~gen'.called
          /\ model' = model
          /\ y_pred' = <<>>]_vars

\* a horizon mixing a past and a future offset is rejected, after an earlier
\* predict had set the prediction length to 3
C9_Witness ==
    /\ f_call = "predict"
    /\ fh_in = [is_relative |-> TRUE, values |-> <<0 - 1, 1>>]
    /\ f_raised = "NotImplementedError"
    /\ model.prediction_length = 3
    /\ ~gen.called

\* C10: predict with a horizon that holds an offset <= 0, the cutoff itself
\* included, raises NotImplementedError.
C10_NonPositiveHorizon ==
    (f_call = "predict" /\ HasOffsetBelow(1)) => f_raised = "NotImplementedError"

\* the datasets handed to Trainer by the last fit
FitTrained == f_call = "fit" /\ trainer.called

\* floor(n * (1 - v)) for the fraction v = num / den
FloorCut(n, v) == (n * (v.den - v.num)) \div v.den

\* C11: with a validation split v the series of n observations is cut at
\* floor(n * (1 - v)): the training dataset holds y[0 .. split-1] and the
\* validation dataset y[split .. n-1], X is cut at the same place, and the
\* two parts in this order make up the whole series; without a validation
\* split the training dataset holds the whole series and there is no
\* validation dataset.
C11_ValidationSplit ==
    FitTrained =>
        LET n     == Len(fitted.y)
            split == FloorCut(n, fc.validation_split)
            tr    == trainer.train_dataset
            ev    == trainer.eval_dataset
        IN  /\ fc.validation_split.given =>
                  /\ trainer.has_eval
                  /\ tr.y = SubSeq(fitted.y, 1, split)
                  /\ ev.y = SubSeq(fitted.y, split + 1, n)
                  /\ tr.y \o ev.y = fitted.y
                  /\ fitted.has_X =>
                        /\ tr.X = SubSeq(fitted.X, 1, split)
                        /\ ev.X = SubSeq(fitted.X, split + 1, n)
            /\ ~fc.validation_split.given =>
                  /\ ~trainer.has_eval
                  /\ tr.y = fitted.y
                  /\ tr.X = fitted.X

\* the last predict was given future exogenous data
PredictWithX == f_call = "predict" /\ X_in.given

\* the rows handed to generate are the supplied rows when there are at least
\* L of them, and otherwise L rows that start with the supplied rows and go
\* on by starting over from the first
ResizedTo(L) ==
    LET rows == X_in.rows
        r    == Len(rows)
        out  == gen.future_time_features
    IN  /\ r >= L => out = rows
        /\ r < L =>
              /\ Len(out) = L
              /\ \A k \in 1..r : out[k] = rows[k]
              /\ \A k \in (r + 1)..L : out[k] = out[k - r]

\* C12 as stated: predict with future exogenous data sets the prediction
\* length to max(fh), hands generate the supplied rows resized cyclically to
\* max(fh) rows when they are fewer and unchanged otherwise, and raises no
\* error, for every horizon of future offsets.
C12_FutureExogNeverRaises ==
    (PredictWithX /\ ~HasOffsetBelow(1)) =>
        /\ f_raised = "none"
        /\ model.prediction_length = MaxOf(RelativeHorizon)
        /\ gen.called
        /\ ResizedTo(MaxOf(RelativeHorizon))

\* C12: on a forecaster fitted with exogenous data, predict with future
\* exogenous data and a horizon of future offsets sets the prediction length
\* to max(fh), hands generate the supplied rows resized cyclically to max(fh)
\* rows when they are fewer and unchanged (not truncated) otherwise, and
\* raises no error; the prediction length is max(fh) whenever the horizon is
\* not rejected.
C12_FutureExog ==
    /\ (f_call = "predict" /\ ~HasOffsetBelow(0)) =>
          model.prediction_length = MaxOf(RelativeHorizon)
    /\ (PredictWithX /\ ~HasOffsetBelow(1) /\ fitted.has_X) =>
          /\ f_raised = "none"
          /\ gen.called
          /\ ResizedTo(MaxOf(RelativeHorizon))
          /\ Len(y_pred) = Len(RelativeHorizon)

\* three supplied rows resized to the seven rows of the horizon <<11, 12>>
\* on a series that ends at 5: the seventh row is the first one again
C12_Witness ==
    /\ PredictWithX
    /\ fitted.has_X /\ fitted.cutoff = 5
    /\ fh_in = [is_relative |-> FALSE, values |-> <<11, 12>>]
    /\ Len(X_in.rows) = 3
    /\ f_raised = "none"
    /\ model.prediction_length = 7
    /\ Len(gen.future_time_features) = 7
    /\ gen.future_time_features[4] = X_in.rows[1]
    /\ gen.future_time_features[7] = X_in.rows[1]

\* the parameters that require a gradient when trainer.train() starts
Trainable == {k \in Keys : trainer.requires_grad[k]}

\* C16: after freeze, clamp and re-initialisation, a "minimal" fit that
\* trains starts training with exactly the parameters reported as
\* mismatched trainable and every other parameter frozen, and a "minimal"
\* fit that returns without training leaves every parameter frozen.
C16_TrainableIsMismatched ==
    (f_call = "fit" /\ fc.fit_strategy = "minimal") =>
        /\ trainer.called =>
              /\ Trainable = info
              /\ \A k \in Keys \ info : ~model.params[k].requires_grad
        /\ ~trainer.called =>
              /\ info = {}
              /\ \A k \in Keys : ~model.params[k].requires_grad

(***************************************************************************)
(* Frame properties                                                        *)
(***************************************************************************)
\* the fitted offset of an estimator constructed anew with the same
\* parameters and fitted once, on Xa
FreshOffset(power, offset, Xa) ==
    _fit(ExponentTransformer__init__(power, offset), Xa).self._offset_value

\* C13: no call changes power or offset; only a successful fit changes the
\* fitted offset, transform and inverse_transform leave the whole estimator
\* and the data they are given as they were; and while X is the data of the
\* last successful fit, the fitted offset is the one a new estimator would
\* get from that data alone, however often the estimator was fitted before.
C13_Lifecycle ==
    [][/\ est'.power = est.power
       /\ est'.offset = est.offset
       /\ est'._offset_value # est._offset_value =>
             (call' = "fit" /\ raised' = "none")
       /\ call' \in {"transform", "inverse_transform"} => est' = est
       /\ (call' = "transform" /\ fit_on_X') => X' = X
       /\ call' = "inverse_transform" => (Z' \in {Xt, X} /\ X' = X /\ Xt' = Xt)
       /\ (call' = "fit" /\ raised' = "none") => fit_on_X'
       /\ fit_on_X' =>
             est'._offset_value = FreshOffset(est'.power, est'.offset, X')]_vars

\* the estimator after fit, transform and inverse_transform on a series
\* whose minimum is -2: the parameters are the constructor's, the fitted
\* offset is 2
C13_Witness ==
    /\ call = "inverse_transform"
    /\ fit_on_X /\ Z = Xt
    /\ est.power = PInt(2) /\ est.offset = PStr("auto")
    /\ X.kind = "Series" /\ SeqMin(X.values[1]) = 0 - 2
    /\ est._offset_value.vals = <<2>>
    /\ Xinv = X

\* C14: no access changes the series, the exogenous data, the window length
\* or the horizon of the dataset; len(dataset) is the same however many
\* accesses were made before, the same index gives the same item again, and
\* the indices 0 .. len-1 are exactly the offsets at which a window fits,
\* the item at index i being the window that starts at offset i.
C14_Restartable ==
    [][/\ dataset' = dataset
       /\ (ds_call' = "__len__" /\ (ds_call = "__len__" \/ ds_len > 0)) =>
             ds_len' = ds_len
       /\ ds_call' = "__len__" =>
             {i \in 0..Len(dataset'.y) : i < ds_len'} = ValidOffsets(dataset')
       /\ (ds_call' = "__getitem__" /\ ds_call = "__getitem__" /\ ds_i' = ds_i) =>
             item' = item
       /\ (ds_call' = "__getitem__" /\ ds_i' \in ValidOffsets(dataset')) =>
             /\ Len(item'.past_values) = dataset'.seq_len
             /\ \A k \in 1..dataset'.seq_len :
                   item'.past_values[k] = dataset'.y[ds_i' + k]]_vars

\* the last index of a dataset of length 5, read after its length was taken:
\* its future window ends with the last observation
C14_Witness ==
    /\ ds_call = "__getitem__"
    /\ Len(dataset.y) = 10 /\ dataset.seq_len = 4 /\ dataset.fh = 2
    /\ ds_len = 5 /\ ds_i = ds_len - 1
    /\ item.past_values[1] = dataset.y[5]
    /\ item.future_values[2] = dataset.y[10]

(***************************************************************************)
(* Properties of check_equal_time_index                                    *)
(***************************************************************************)
\* C15: check_equal_time_index called on two numpy arrays of the same
\* length, whatever their values, raises nothing.
C15_EqualLengthArrays ==
    (/\ ti_call = "check_equal_time_index"
     /\ first_array.kind = "ndarray" /\ second_array.kind = "ndarray"
     /\ Len(first_array.values) = Len(second_array.values)) =>
        ti_raised = "none"

\* two arrays of three values that differ in every position
C15_Witness ==
    /\ ti_call = "check_equal_time_index"
    /\ first_array.kind = "ndarray" /\ second_array.kind = "ndarray"
    /\ first_array.values = <<0, 1, 0>>
    /\ second_array.values = <<1, 0, 1>>
    /\ ti_raised = "none"

====
